---- MODULE Spec2Model ----
(***************************************************************************)
(* GraphWeaver chat client: the streaming reader sendStreamingMessage      *)
(* (lib/api.js) and the ChatPage state machine (app/chat/page.jsx).        *)
(*                                                                         *)
(* Text is a sequence of atoms: "\n" is one atom, and so are the tag       *)
(* markers "event: " and "data: ", an event-type name and a JSON document. *)
(* A chunk boundary may fall between any two atoms.  Message content and   *)
(* error texts are strings, concatenated with \o as the code does with +.  *)
(***************************************************************************)
EXTENDS Integers, Sequences, FiniteSets, TLC

VARIABLES
    currentPhase,    \* page.jsx:19  useState('user_intent')
    mode,            \* page.jsx:20  useState('build')
    messages,        \* page.jsx:23  message history
    isLoading,       \* page.jsx:33  in-flight flag
    error,           \* page.jsx:34  error banner text or Null
    sessionState,    \* page.jsx:37  accumulated backend keys
    checkpointData,  \* page.jsx:40  None or Some(checkpoint record)
    lastSendRef,     \* page.jsx:43  {message, action} of the last accepted send
    calls,           \* the handleSend invocations, in order of acceptance
    reader,          \* a read loop taken alone: the text it is fed and its buffer
    builder          \* GraphBuilder.jsx:18-28  the state of the GraphBuilder component

vars == <<currentPhase, mode, messages, isLoading, error, sessionState,
          checkpointData, lastSendRef, calls, reader, builder>>

----------------------------------------------------------------------------
(* Bounds *)

MaxSends == 2   \* accepted handleSend calls in one session
MaxReads == 2   \* chunks one stream delivers before it ends
MaxText == 5    \* atoms of the text fed to the read loop taken alone
MaxAwaited == 3 \* accepted handleSend calls of the page that awaits responses
MaxLines == 3   \* lines of the frame given to the line scan taken alone

----------------------------------------------------------------------------
(* JavaScript values *)

Null == "null"
Undefined == "undefined"
None == <<>>
Some(x) == <<x>>

Get(obj, key) == IF key \in DOMAIN obj THEN obj[key] ELSE Undefined

\* truthiness of a string-valued expression
Truthy(v) == v \notin {Null, Undefined, ""}

Min(S) == CHOOSE x \in S : \A y \in S : x <= y

----------------------------------------------------------------------------
(* The wire: atoms, JSON documents, frames *)

NL == "\n"
SP == " "
EventTag == "event: "
DataTag == "data: "

JThinking == "{\"content\":\"t\"}"
JTokenA == "{\"delta\":\"a\"}"
JTokenB == "{\"delta\":\"b\"}"
JError == "{\"message\":\"E\"}"
JPlain == "{\"message\":\"X\",\"phase\":\"file_suggestion\"}"
JCheckpoint == "{\"message\":\"X\",\"phase\":\"schema_proposal\",\"checkpoint\":\"schema_approval\",\"proposed_data\":\"schema\",\"actions\":{\"approve\":\"Go\"}}"
JBuilt == "{\"message\":\"Y\",\"current_phase\":\"query\",\"graph_built\":true}"
JNull == "null"
JBad == "{\"delta\":"

\* JSON.parse on the texts above that are valid JSON documents
JsonDocs ==
    (JThinking :> Some([content |-> "t"])) @@
    (JTokenA :> Some([delta |-> "a"])) @@
    (JTokenB :> Some([delta |-> "b"])) @@
    (JError :> Some([message |-> "E"])) @@
    (JPlain :> Some([message |-> "X", phase |-> "file_suggestion"])) @@
    (JCheckpoint :> Some([message |-> "X", phase |-> "schema_proposal",
                          checkpoint |-> "schema_approval",
                          proposed_data |-> "schema",
                          actions |-> [approve |-> "Go"]])) @@
    (JBuilt :> Some([message |-> "Y", current_phase |-> "query",
                     graph_built |-> TRUE])) @@
    (JNull :> None)

RECURSIVE ConcatAtoms(_)
ConcatAtoms(s) == IF s = <<>> THEN "" ELSE Head(s) \o ConcatAtoms(Tail(s))

\* String.prototype.trim on a sequence of atoms
RECURSIVE TrimAtoms(_)
TrimAtoms(s) ==
    IF s = <<>> THEN s
    ELSE IF Head(s) \in {SP, NL} THEN TrimAtoms(Tail(s))
    ELSE IF s[Len(s)] \in {SP, NL} THEN TrimAtoms(SubSeq(s, 1, Len(s) - 1))
    ELSE s

\* JSON.parse: ok with the parsed value (None for JSON null), or a throw
JSONparse(s) ==
    LET text == ConcatAtoms(TrimAtoms(s))
    IN  IF text \in DOMAIN JsonDocs THEN [ok |-> TRUE, value |-> JsonDocs[text]]
        ELSE [ok |-> FALSE, value |-> None]

\* String.prototype.split("\n\n")
RECURSIVE SplitFrames(_)
SplitFrames(s) ==
    LET hits == {k \in 1..(Len(s) - 1) : s[k] = NL /\ s[k + 1] = NL}
    IN  IF hits = {} THEN <<s>>
        ELSE LET k == Min(hits)
             IN  <<SubSeq(s, 1, k - 1)>> \o SplitFrames(SubSeq(s, k + 2, Len(s)))

\* String.prototype.split("\n")
RECURSIVE SplitLines(_)
SplitLines(s) ==
    LET hits == {k \in 1..Len(s) : s[k] = NL}
    IN  IF hits = {} THEN <<s>>
        ELSE LET k == Min(hits)
             IN  <<SubSeq(s, 1, k - 1)>> \o SplitLines(SubSeq(s, k + 1, Len(s)))

\* const messages = buffer.split('\n\n'); buffer = messages.pop() || ''
\* the remainder without the carry: the buffer is reset after every chunk
RemainderDropped(parts) == <<>>

Remainder(parts) == parts[Len(parts)]

CompleteFrames(parts) == SubSeq(parts, 1, Len(parts) - 1)

StartsWith(line, tag) == Len(line) >= 1 /\ line[1] = tag

\* the line scan taking the text of an unparseable data line as a delta
RECURSIVE ScanLinesKeepsRaw(_, _)
ScanLinesKeepsRaw(lines, ev) ==
    IF lines = <<>> THEN ev
    ELSE LET line == Head(lines)
             rest == Tail(line)
             next ==
                 IF StartsWith(line, EventTag)
                 THEN [ev EXCEPT !.eventType = ConcatAtoms(TrimAtoms(rest))]
                 ELSE IF StartsWith(line, DataTag)
                 THEN LET p == JSONparse(rest)
                      IN  IF p.ok THEN [ev EXCEPT !.data = p.value]
                          ELSE [ev EXCEPT !.data = Some([delta |-> ConcatAtoms(rest)])]
                 ELSE ev
         IN  ScanLinesKeepsRaw(Tail(lines), next)

\* the line scan of one frame: eventType and data after the last line
RECURSIVE ScanLines(_, _)
ScanLines(lines, ev) ==
    IF lines = <<>> THEN ev
    ELSE LET line == Head(lines)
             rest == Tail(line)
             next ==
                 IF StartsWith(line, EventTag)
                 THEN [ev EXCEPT !.eventType = ConcatAtoms(TrimAtoms(rest))]
                 ELSE IF StartsWith(line, DataTag)
                 THEN LET p == JSONparse(rest)
                      IN  IF p.ok THEN [ev EXCEPT !.data = p.value] ELSE ev
                 ELSE ev
         IN  ScanLines(Tail(lines), next)

ParseFrame(msg) ==
    ScanLines(SplitLines(msg), [eventType |-> "message", data |-> None])

----------------------------------------------------------------------------
(* ChatPage: messages, callbacks of one streamed exchange *)

Welcome == "Welcome to GraphWeaver! I'll help you build your knowledge graph. What kind of graph would you like to create?"

Msg(kind, call, role, content, metadata) ==
    [id |-> [kind |-> kind, call |-> call], role |-> role,
     content |-> content, metadata |-> metadata]

AgentId(i) == [kind |-> "agent", call |-> i]

\* the observable state a callback reads and writes, plus the locals of the
\* handleSend invocation that owns the stream
Snapshot(i) ==
    [messages |-> messages, isLoading |-> isLoading, error |-> error,
     sessionState |-> sessionState, checkpointData |-> checkpointData,
     currentPhase |-> currentPhase,
     currentContent |-> calls[i].currentContent,
     thinkingStatus |-> calls[i].thinkingStatus,
     log |-> calls[i].log, received |-> calls[i].received]

Logged(S, cb, src, data) ==
    [S EXCEPT !.log = Append(@, [cb |-> cb, src |-> src, data |-> data])]

\* the response alone, the previous keys dropped
MergeReplaces(prev, response) == response

\* { ...prev, ...response }
Merge(prev, response) ==
    [k \in DOMAIN prev \cup DOMAIN response |->
        IF k \in DOMAIN response THEN response[k] ELSE prev[k]]

onThinking(S, status) == [S EXCEPT !.thinkingStatus = status]

\* onToken putting the new delta in front of the content
onTokenPrepends(i, S, delta) ==
    LET content == delta \o S.currentContent
        existing == \E k \in 1..Len(S.messages) : S.messages[k].id = AgentId(i)
    IN  [S EXCEPT
            !.currentContent = content,
            !.messages =
                IF existing
                THEN [k \in 1..Len(@) |->
                        IF @[k].id = AgentId(i)
                        THEN [@[k] EXCEPT !.content = content]
                        ELSE @[k]]
                ELSE Append(@, Msg("agent", i, "agent", content, None))]

onToken(i, S, delta) ==
    LET content == S.currentContent \o delta
        existing == \E k \in 1..Len(S.messages) : S.messages[k].id = AgentId(i)
    IN  [S EXCEPT
            !.currentContent = content,
            !.messages =
                IF existing
                THEN [k \in 1..Len(@) |->
                        IF @[k].id = AgentId(i)
                        THEN [@[k] EXCEPT !.content = content]
                        ELSE @[k]]
                ELSE Append(@, Msg("agent", i, "agent", content, None))]

\* onComplete without the else branch that clears the checkpoint
onCompleteKeepsCheckpoint(i, phaseAtSend, S, response) ==
    LET checkpoint == Get(response, "checkpoint")
        phase == Get(response, "phase")
    IN  [S EXCEPT
            !.messages =
                [k \in 1..Len(@) |->
                    IF @[k].id = AgentId(i)
                    THEN [@[k] EXCEPT !.content = Get(response, "message"),
                                      !.metadata = Some(response)]
                    ELSE @[k]],
            !.sessionState = Merge(@, response),
            !.checkpointData =
                IF Truthy(checkpoint)
                THEN Some([checkpoint |-> checkpoint,
                           proposedData |-> Get(response, "proposed_data"),
                           actions |-> IF "actions" \in DOMAIN response
                                       THEN response.actions ELSE <<>>])
                ELSE @,
            !.currentPhase =
                IF Truthy(phase) /\ phase # phaseAtSend THEN phase ELSE @,
            !.isLoading = FALSE]

\* phaseAtSend is the currentPhase of the render that created the callbacks
onComplete(i, phaseAtSend, S, response) ==
    LET checkpoint == Get(response, "checkpoint")
        phase == Get(response, "phase")
    IN  [S EXCEPT
            !.messages =
                [k \in 1..Len(@) |->
                    IF @[k].id = AgentId(i)
                    THEN [@[k] EXCEPT !.content = Get(response, "message"),
                                      !.metadata = Some(response)]
                    ELSE @[k]],
            !.sessionState = Merge(@, response),
            !.checkpointData =
                IF Truthy(checkpoint)
                THEN Some([checkpoint |-> checkpoint,
                           proposedData |-> Get(response, "proposed_data"),
                           actions |-> IF "actions" \in DOMAIN response
                                       THEN response.actions ELSE <<>>])
                ELSE None,
            !.currentPhase =
                IF Truthy(phase) /\ phase # phaseAtSend THEN phase ELSE @,
            !.isLoading = FALSE]

\* onError that takes the partial agent message of the exchange away
onErrorDropsPartial(i, S, errorMsg) ==
    [S EXCEPT
        !.error = errorMsg,
        !.messages = Append(SelectSeq(@, LAMBDA m : m.id # AgentId(i)),
                            Msg("error", i, "system", "Error: " \o errorMsg, None)),
        !.isLoading = FALSE]

\* onError that also sends the workflow back to its first phase
onErrorResetsPhase(i, S, errorMsg) ==
    [S EXCEPT
        !.error = errorMsg,
        !.messages = Append(@, Msg("error", i, "system", "Error: " \o errorMsg, None)),
        !.currentPhase = "user_intent",
        !.isLoading = FALSE]

onError(i, S, errorMsg) ==
    [S EXCEPT
        !.error = errorMsg,
        !.messages = Append(@, Msg("error", i, "system", "Error: " \o errorMsg, None)),
        !.isLoading = FALSE]

\* "Call appropriate callback" for one decoded frame
Callback(i, phaseAtSend, S, ev) ==
    IF ev.data = None THEN S
    ELSE LET data == ev.data[1]
         IN  IF ev.eventType = "thinking"
             THEN onThinking(Logged(S, "thinking", "event", data), Get(data, "content"))
             ELSE IF ev.eventType = "token"
             THEN onToken(i, Logged(S, "token", "event", data), Get(data, "delta"))
             ELSE IF ev.eventType = "complete"
             THEN onComplete(i, phaseAtSend, Logged(S, "complete", "event", data), data)
             ELSE IF ev.eventType = "error"
             THEN onError(i, Logged(S, "error", "event", data), Get(data, "message"))
             ELSE S

\* for (const msg of messages): blank frames skipped, the others decoded
RECURSIVE ProcessMessages(_, _, _, _)
ProcessMessages(i, phaseAtSend, S, msgs) ==
    IF msgs = <<>> THEN S
    ELSE LET msg == Head(msgs)
             next == IF TrimAtoms(msg) = <<>> THEN S
                     ELSE Callback(i, phaseAtSend, S, ParseFrame(msg))
         IN  ProcessMessages(i, phaseAtSend, next, Tail(msgs))

\* write a snapshot back: the page state and the locals of call i
Commit(i, S, pc, buffer, reads) ==
    /\ messages' = S.messages
    /\ isLoading' = S.isLoading
    /\ error' = S.error
    /\ sessionState' = S.sessionState
    /\ checkpointData' = S.checkpointData
    /\ currentPhase' = S.currentPhase
    /\ calls' = [calls EXCEPT ![i] =
                    [@ EXCEPT !.pc = pc, !.buffer = buffer, !.reads = reads,
                              !.currentContent = S.currentContent,
                              !.thinkingStatus = S.thinkingStatus,
                              !.log = S.log, !.received = S.received,
                              !.auth = None]]
    /\ UNCHANGED <<mode, lastSendRef, reader, builder>>

----------------------------------------------------------------------------
(* ChatPage: sending *)

SessionId == "session"

Actions == {"approve", "modify", "preview", "cancel"}

\* one of the three "Try:" suggestions; the other two differ in text only
Suggestions == { <<"Build a graph from my CSV files">> }

\* what the user can have typed into the input box
InputTexts == { <<"hello">>, <<SP, SP, SP>>, <<>> }

\* a new handleSend invocation; origin, gated, sessionAtSend and
\* checkpointAtDispatch record how and in which state it was started and
\* its request issued, received the text its stream has delivered, result
\* what queryGraph resolved to (read by the properties only); auth is the
\* token and headers of sendStreamingMessage while its fetch is pending
NewCall(messageText, action, origin, gated) ==
    [messageText |-> messageText, action |-> action,
     origin |-> origin, gated |-> gated, sessionAtSend |-> sessionState,
     pc |-> IF mode = "build" THEN "headers" ELSE "query",
     phaseAtSend |-> currentPhase,
     currentContent |-> "", thinkingStatus |-> "",
     buffer |-> <<>>, reads |-> 0, request |-> None, log |-> <<>>,
     checkpointAtDispatch |-> "unsent", received |-> <<>>, result |-> None,
     auth |-> None]

\* the part of the page state handleSend and its callers write before the
\* first await
Page ==
    [messages |-> messages, isLoading |-> isLoading, error |-> error,
     lastSendRef |-> lastSendRef, checkpointData |-> checkpointData,
     calls |-> calls]

\* handleSend without the isLoading half of its guard
handleSendWhileLoading(P, messageText, action, origin, gated) ==
    IF TrimAtoms(messageText) = <<>> THEN P
    ELSE [P EXCEPT
            !.messages = Append(@, Msg("user", Len(P.calls) + 1, "user",
                                       ConcatAtoms(messageText), None)),
            !.isLoading = TRUE,
            !.error = Null,
            !.lastSendRef = [message |-> Some(messageText), action |-> action],
            !.calls = Append(@, NewCall(messageText, action, origin, gated))]

\* handleSend without lastSendRef.current = { message, action }
handleSendForgets(P, messageText, action, origin, gated) ==
    IF TrimAtoms(messageText) = <<>> \/ P.isLoading THEN P
    ELSE [P EXCEPT
            !.messages = Append(@, Msg("user", Len(P.calls) + 1, "user",
                                       ConcatAtoms(messageText), None)),
            !.isLoading = TRUE,
            !.error = Null,
            !.calls = Append(@, NewCall(messageText, action, origin, gated))]

handleSend(P, messageText, action, origin, gated) ==
    IF TrimAtoms(messageText) = <<>> \/ P.isLoading THEN P
    ELSE [P EXCEPT
            !.messages = Append(@, Msg("user", Len(P.calls) + 1, "user",
                                       ConcatAtoms(messageText), None)),
            !.isLoading = TRUE,
            !.error = Null,
            !.lastSendRef = [message |-> Some(messageText), action |-> action],
            !.calls = Append(@, NewCall(messageText, action, origin, gated))]

handleRetry(P) ==
    LET P1 == [P EXCEPT !.error = Null]
        last == P.lastSendRef
    IN  IF last.message # None /\ last.message[1] # <<>>
        THEN handleSend(P1, last.message[1], last.action, "retry",
                        P.checkpointData # None)
        ELSE P1

handleCheckpointAction(P, action) ==
    handleSend([P EXCEPT !.checkpointData = None], <<action>>, action,
               "checkpoint", P.checkpointData # None)

CommitPage(P) ==
    /\ Len(P.calls) <= MaxSends
    /\ messages' = P.messages
    /\ isLoading' = P.isLoading
    /\ error' = P.error
    /\ lastSendRef' = P.lastSendRef
    /\ checkpointData' = P.checkpointData
    /\ calls' = P.calls
    /\ UNCHANGED <<currentPhase, mode, sessionState, reader, builder>>

\* ChatInput.handleSubmit, whose onSend is (text) => handleSend(text)
ChatInputSubmit(text) ==
    IF TrimAtoms(text) # <<>> /\ ~isLoading /\ checkpointData = None
    THEN CommitPage(handleSend(Page, text, Null, "input", checkpointData # None))
    ELSE UNCHANGED vars

isFirstMessage == Len(messages) = 1 /\ messages[1].role = "agent"

\* a click on one of the "Try:" buttons
SuggestionClick(text) ==
    /\ isFirstMessage /\ ~isLoading
    /\ CommitPage(handleSend(Page, text, Null, "suggestion", checkpointData # None))

\* a click on Retry in the error bar
RetryClick ==
    /\ Truthy(error)
    /\ CommitPage(handleRetry(Page))

\* a click on a button of the CheckpointCard
CheckpointClick(action) ==
    /\ checkpointData # None /\ ~isLoading
    /\ action \in DOMAIN checkpointData[1].actions
    /\ Truthy(checkpointData[1].actions[action])
    /\ CommitPage(handleCheckpointAction(Page, action))

----------------------------------------------------------------------------
(* sendStreamingMessage and the rest of handleSend *)

Frame(eventType, json) == <<EventTag, eventType, NL, DataTag, json>>
Delimiter == <<NL, NL>>

\* what one reader.read() can deliver
Chunks ==
    { Frame("thinking", JThinking) \o Delimiter,
      Frame("token", JTokenA) \o Delimiter,
      Frame("token", JTokenB) \o Delimiter,
      Frame("complete", JPlain) \o Delimiter,
      Frame("complete", JCheckpoint) \o Delimiter,
      Frame("complete", JBuilt) \o Delimiter,
      Frame("error", JError) \o Delimiter,
      Frame("error", JError),
      Frame("token", JBad) \o Delimiter,
      Delimiter }

\* messages of the exceptions fetch and the !res.ok branch throw
FetchErrors ==
    { "Failed to fetch",
      "Authentication required. Please log in again." }

StreamError == "network error"
AuthError == "Auth session missing!"

\* catch without its setIsLoading(false)
catchKeepsLoading(i, S, errMessage) ==
    LET text == IF Truthy(errMessage) THEN errMessage ELSE "Failed to send message"
    IN  [Logged(S, "catch", "handleSend", [message |-> text]) EXCEPT
            !.error = text,
            !.messages = Append(@, Msg("error", i, "system", "Error: " \o text, None))]

\* the catch block of handleSend
catch(i, S, errMessage) ==
    LET text == IF Truthy(errMessage) THEN errMessage ELSE "Failed to send message"
    IN  [Logged(S, "catch", "handleSend", [message |-> text]) EXCEPT
            !.error = text,
            !.messages = Append(@, Msg("error", i, "system", "Error: " \o text, None)),
            !.isLoading = FALSE]

\* what getAccessToken resolves to: a JWT, or null without a user or session
Tokens == {Null, "jwt"}

\* getHeaders with a bearer token for every request
getHeadersAlwaysBearer(token) ==
    ("Content-Type" :> "application/json") @@
    ("Authorization" :> "Bearer " \o token)

getHeaders(token) ==
    IF Truthy(token)
    THEN ("Content-Type" :> "application/json") @@
         ("Authorization" :> "Bearer " \o token)
    ELSE ("Content-Type" :> "application/json")

\* getHeaders resolved: the request is issued
GetHeadersResolve(i, token) ==
    /\ calls[i].pc = "headers"
    /\ calls' = [calls EXCEPT ![i] =
            [@ EXCEPT !.pc = "fetch",
                      !.checkpointAtDispatch =
                          IF checkpointData = None THEN "absent" ELSE "present",
                      !.auth = Some([token |-> token,
                                     headers |-> getHeaders(token)]),
                      !.request = Some([session_id |-> SessionId,
                                        message |-> ConcatAtoms(calls[i].messageText)])]]
    /\ UNCHANGED <<currentPhase, mode, messages, isLoading, error, sessionState,
                   checkpointData, lastSendRef, reader, builder>>

\* getAccessToken threw: sendStreamingMessage rejects before any request
GetHeadersReject(i) ==
    /\ calls[i].pc = "headers"
    /\ Commit(i, catch(i, Snapshot(i), AuthError), "done", calls[i].buffer, calls[i].reads)

\* res.ok: the body is read next
FetchResolve(i) ==
    /\ calls[i].pc = "fetch"
    /\ calls' = [calls EXCEPT ![i] = [@ EXCEPT !.pc = "read", !.auth = None]]
    /\ UNCHANGED <<currentPhase, mode, messages, isLoading, error, sessionState,
                   checkpointData, lastSendRef, reader, builder>>

\* fetch rejected, or the status was not a success
FetchReject(i, errMessage) ==
    /\ calls[i].pc = "fetch"
    /\ Commit(i, catch(i, Snapshot(i), errMessage), "done", calls[i].buffer, calls[i].reads)

\* one iteration of the read loop with done = false
ReadChunk(i, chunk) ==
    /\ calls[i].pc = "read"
    /\ calls[i].reads < MaxReads
    /\ LET parts == SplitFrames(calls[i].buffer \o chunk)
           complete == CompleteFrames(parts)
           remainder == Remainder(parts)
           S == ProcessMessages(i, calls[i].phaseAtSend, Snapshot(i), complete)
       IN  Commit(i, [S EXCEPT !.received = @ \o chunk], "read", remainder,
                  calls[i].reads + 1)

\* done = true, with the buffer decoded as one last frame
ReadDoneFlushes(i) ==
    /\ calls[i].pc = "read"
    /\ LET S == ProcessMessages(i, calls[i].phaseAtSend, Snapshot(i),
                                <<calls[i].buffer>>)
       IN  Commit(i, S, "done", <<>>, calls[i].reads)

\* done = true: the loop breaks and sendStreamingMessage returns
ReadDone(i) ==
    /\ calls[i].pc = "read"
    /\ calls' = [calls EXCEPT ![i] = [@ EXCEPT !.pc = "done"]]
    /\ UNCHANGED <<currentPhase, mode, messages, isLoading, error, sessionState,
                   checkpointData, lastSendRef, reader, builder>>

\* reader.read() rejected, the catch calling onError and throwing again
ReadRejectRethrows(i) ==
    /\ calls[i].pc = "read"
    /\ LET data == [message |-> StreamError]
           S == onError(i, Logged(Snapshot(i), "error", "catch", data), StreamError)
       IN  Commit(i, catch(i, S, StreamError), "done", calls[i].buffer,
                  calls[i].reads)

\* reader.read() rejected: the catch of sendStreamingMessage calls onError
ReadReject(i) ==
    /\ calls[i].pc = "read"
    /\ LET data == [message |-> StreamError]
           S == onError(i, Logged(Snapshot(i), "error", "catch", data), StreamError)
       IN  Commit(i, S, "done", calls[i].buffer, calls[i].reads)

----------------------------------------------------------------------------

\* the state of ChatPage after its first render
PageInit ==
    /\ currentPhase = "user_intent"
    /\ mode = "build"
    /\ messages = << Msg("welcome", 0, "agent", Welcome, None) >>
    /\ isLoading = FALSE
    /\ error = Null
    /\ sessionState = <<>>
    /\ checkpointData = None
    /\ lastSendRef = [message |-> None, action |-> Null]
    /\ calls = <<>>

Reader(text) ==
    [text |-> text, pos |-> 0, buffer |-> <<>>, frames |-> <<>>,
     cuts |-> <<>>, done |-> FALSE]

\* the state of GraphBuilder after its first render; run is the position
\* of startConstruction (0: not running, k: awaiting the k-th step) and
\* completed counts the calls of onComplete
Builder(autoStart) ==
    [autoStart |-> autoStart, mounted |-> FALSE,
     progress |-> [k \in {"domain_graph", "lexical_graph", "subject_graph",
                          "entity_resolution", "vector_index"} |-> FALSE],
     currentStep |-> Null, error |-> Null, results |-> <<>>,
     run |-> 0, completed |-> 0]

Init ==
    /\ PageInit
    /\ reader = Reader(<<>>)
    /\ builder = Builder(FALSE)

Next ==
    \/ \E text \in InputTexts : ChatInputSubmit(text)
    \/ \E text \in Suggestions : SuggestionClick(text)
    \/ RetryClick
    \/ \E action \in Actions : CheckpointClick(action)
    \/ \E i \in 1..Len(calls) : \E token \in Tokens : GetHeadersResolve(i, token)
    \/ \E i \in 1..Len(calls) : GetHeadersReject(i)
    \/ \E i \in 1..Len(calls) : FetchResolve(i)
    \/ \E i \in 1..Len(calls) : \E e \in FetchErrors : FetchReject(i, e)
    \/ \E i \in 1..Len(calls) : \E chunk \in Chunks : ReadChunk(i, chunk)
    \/ \E i \in 1..Len(calls) : ReadDone(i)
    \/ \E i \in 1..Len(calls) : ReadReject(i)

Spec == Init /\ [][Next]_vars

----------------------------------------------------------------------------
(* The ChatPage that awaits one response per message: sendUnifiedMessage *)
(* in build mode, queryGraph in query mode                               *)

Transition == "Graph built successfully! You can now ask questions about your knowledge graph."

\* a boolean field of a response that is present and true
Flag(obj, key) == key \in DOMAIN obj /\ obj[key]

\* what res.json() of sendUnifiedMessage resolves to
UnifiedResponses ==
    { [message |-> "X", current_phase |-> "file_suggestion"],
      [message |-> "X", current_phase |-> "schema_proposal",
       awaiting_user_action |-> TRUE, checkpoint |-> "schema_approval",
       proposed_data |-> "schema", actions |-> [approve |-> "Go"]],
      [message |-> "Y", current_phase |-> "query", graph_built |-> TRUE],
      [response |-> "Z", current_phase |-> "query"] }

\* what res.json() of queryGraph resolves to
QueryResults ==
    { [query_result |-> [answer |-> "42"]],
      [detail |-> "Not Found"] }

AnswerTypeError == "Cannot read properties of undefined (reading 'answer')"

\* messages of the exceptions the two requests throw
ApiErrors == { "API error: 500", "" }

\* handleSend up to its first await
handleSendUnified(P, messageText, action, origin, gated) ==
    IF TrimAtoms(messageText) = <<>> \/ P.isLoading THEN P
    ELSE [P EXCEPT
            !.messages = Append(@, Msg("user", Len(P.calls) + 1, "user",
                                       ConcatAtoms(messageText), None)),
            !.isLoading = TRUE,
            !.error = Null,
            !.calls = Append(@, NewCall(messageText, action, origin, gated))]

handleCheckpointActionUnified(P, action) ==
    handleSendUnified([P EXCEPT !.checkpointData = None], <<action>>, action,
                      "checkpoint", P.checkpointData # None)

\* the page state after the synchronous part of a handler
CommitUnified(P) ==
    /\ Len(P.calls) <= MaxAwaited
    /\ messages' = P.messages
    /\ isLoading' = P.isLoading
    /\ error' = P.error
    /\ checkpointData' = P.checkpointData
    /\ calls' = P.calls
    /\ UNCHANGED <<currentPhase, mode, sessionState, lastSendRef, reader, builder>>

UnifiedChatInputSubmit(text) ==
    IF TrimAtoms(text) # <<>> /\ ~isLoading /\ checkpointData = None
    THEN CommitUnified(handleSendUnified(Page, text, Null, "input", FALSE))
    ELSE UNCHANGED vars

UnifiedCheckpointClick(action) ==
    /\ checkpointData # None /\ ~isLoading
    /\ action \in DOMAIN checkpointData[1].actions
    /\ Truthy(checkpointData[1].actions[action])
    /\ CommitUnified(handleCheckpointActionUnified(Page, action))

\* the catch and finally blocks
catchUnified(i, errMessage) ==
    LET text == IF Truthy(errMessage) THEN errMessage ELSE "Failed to send message"
    IN  /\ error' = text
        /\ messages' = Append(messages,
                              Msg("error", i, "system", "Error: " \o text, None))
        /\ isLoading' = FALSE
        /\ calls' = [calls EXCEPT ![i].pc = "done"]
        /\ UNCHANGED <<currentPhase, mode, sessionState, checkpointData,
                       lastSendRef, reader, builder>>

\* sendUnifiedMessage resolved with a response (pc "headers" is the one
\* await of build mode)
UnifiedResolve(i, response) ==
    LET content == IF Truthy(Get(response, "message")) THEN response.message
                   ELSE Get(response, "response")
        phase == Get(response, "current_phase")
        built == phase = "query" /\ Flag(response, "graph_built")
        withAgent == Append(messages,
                            Msg("agent", i, "agent", content, Some(response)))
    IN  /\ calls[i].pc = "headers"
        /\ messages' = IF built
                       THEN Append(withAgent,
                                   Msg("system", i, "system", Transition, None))
                       ELSE withAgent
        /\ sessionState' = Merge(sessionState, response)
        /\ checkpointData' =
               IF Flag(response, "awaiting_user_action")
                  /\ Truthy(Get(response, "checkpoint"))
               THEN Some([checkpoint |-> response.checkpoint,
                          proposedData |-> Get(response, "proposed_data"),
                          actions |-> IF "actions" \in DOMAIN response
                                      THEN response.actions ELSE <<>>])
               ELSE None
        /\ currentPhase' = IF Truthy(phase) /\ phase # calls[i].phaseAtSend
                           THEN phase ELSE currentPhase
        /\ mode' = IF built THEN "query" ELSE mode
        /\ isLoading' = FALSE
        /\ calls' = [calls EXCEPT ![i].pc = "done"]
        /\ UNCHANGED <<error, lastSendRef, reader, builder>>

\* queryGraph resolved and the page goes back to build mode
QueryResolveLeavesQuery(i, result) ==
    /\ calls[i].pc = "query"
    /\ IF "query_result" \in DOMAIN result
       THEN /\ messages' = Append(messages,
                                  Msg("agent", i, "agent",
                                      result.query_result.answer,
                                      Some(result.query_result)))
            /\ isLoading' = FALSE
            /\ mode' = "build"
            /\ calls' = [calls EXCEPT ![i].pc = "done"]
            /\ UNCHANGED <<currentPhase, sessionState, checkpointData,
                           error, lastSendRef, reader, builder>>
       ELSE catchUnified(i, AnswerTypeError)

\* queryGraph resolved, its result also merged into the session state
QueryResolveMerges(i, result) ==
    /\ calls[i].pc = "query"
    /\ IF "query_result" \in DOMAIN result
       THEN /\ messages' = Append(messages,
                                  Msg("agent", i, "agent",
                                      result.query_result.answer,
                                      Some(result.query_result)))
            /\ isLoading' = FALSE
            /\ sessionState' = Merge(sessionState, result)
            /\ calls' = [calls EXCEPT ![i] =
                            [@ EXCEPT !.pc = "done", !.result = Some(result)]]
            /\ UNCHANGED <<currentPhase, mode, checkpointData,
                           error, lastSendRef, reader, builder>>
       ELSE catchUnified(i, AnswerTypeError)

\* queryGraph resolved with a result
QueryResolve(i, result) ==
    /\ calls[i].pc = "query"
    /\ IF "query_result" \in DOMAIN result
       THEN /\ messages' = Append(messages,
                                  Msg("agent", i, "agent",
                                      result.query_result.answer,
                                      Some(result.query_result)))
            /\ isLoading' = FALSE
            /\ calls' = [calls EXCEPT ![i] =
                            [@ EXCEPT !.pc = "done", !.result = Some(result)]]
            /\ UNCHANGED <<currentPhase, mode, sessionState, checkpointData,
                           error, lastSendRef, reader, builder>>
       ELSE catchUnified(i, AnswerTypeError)

\* sendUnifiedMessage or queryGraph rejected
RequestReject(i, errMessage) ==
    /\ calls[i].pc \in {"headers", "query"}
    /\ catchUnified(i, errMessage)

NextUnified ==
    \/ \E text \in InputTexts : UnifiedChatInputSubmit(text)
    \/ \E action \in Actions : UnifiedCheckpointClick(action)
    \/ \E i \in 1..Len(calls) : \E r \in UnifiedResponses : UnifiedResolve(i, r)
    \/ \E i \in 1..Len(calls) : \E r \in QueryResults : QueryResolve(i, r)
    \/ \E i \in 1..Len(calls) : \E e \in ApiErrors : RequestReject(i, e)

SpecUnified == Init /\ [][NextUnified]_vars

----------------------------------------------------------------------------
(* The read loop of sendStreamingMessage taken alone: one text, cut into *)
(* chunks in every possible way, empty chunks included                    *)

SplitAlphabet == {NL, "x"}

Texts == UNION {[1..n -> SplitAlphabet] : n \in 0..MaxText}

\* one iteration with done = false: the next n atoms of the text arrive
Feed(n) ==
    /\ ~reader.done
    /\ Len(reader.cuts) <= Len(reader.text)
    /\ reader.pos + n <= Len(reader.text)
    /\ LET chunk == SubSeq(reader.text, reader.pos + 1, reader.pos + n)
           parts == SplitFrames(reader.buffer \o chunk)
       IN  reader' = [reader EXCEPT
                        !.pos = @ + n,
                        !.cuts = Append(@, reader.pos + n),
                        !.frames = @ \o CompleteFrames(parts),
                        !.buffer = Remainder(parts)]
    /\ UNCHANGED <<currentPhase, mode, messages, isLoading, error, sessionState,
                   checkpointData, lastSendRef, calls, builder>>

\* done = true: the loop breaks, whatever is left in the buffer
EndOfStream ==
    /\ ~reader.done
    /\ reader.pos = Len(reader.text)
    /\ reader' = [reader EXCEPT !.done = TRUE]
    /\ UNCHANGED <<currentPhase, mode, messages, isLoading, error, sessionState,
                   checkpointData, lastSendRef, calls, builder>>

InitSplit ==
    /\ PageInit
    /\ \E text \in Texts : reader = Reader(text)
    /\ builder = Builder(FALSE)

NextSplit ==
    \/ \E n \in 0..MaxText : Feed(n)
    \/ EndOfStream

SpecSplit == InitSplit /\ [][NextSplit]_vars

----------------------------------------------------------------------------
(* The line scan of sendStreamingMessage taken alone: one frame, decoded *)

FrameLines ==
    { <<EventTag, "token">>, <<EventTag, "complete">>,
      <<DataTag, JTokenA>>, <<DataTag, JTokenB>>,
      <<DataTag, JBad>>, <<DataTag, JNull>>,
      <<"x">> }

\* msg.split('\n') read backwards: the frame text of a sequence of lines
RECURSIVE JoinLines(_)
JoinLines(lines) ==
    IF Len(lines) = 1 THEN lines[1]
    ELSE lines[1] \o <<NL>> \o JoinLines(Tail(lines))

FrameTexts ==
    {JoinLines(ls) : ls \in UNION {[1..n -> FrameLines] : n \in 1..MaxLines}}

\* one pass of for (const msg of messages) over the frame
Scan ==
    /\ ~reader.done
    /\ reader' = [reader EXCEPT
                    !.frames = <<ParseFrame(reader.text)>>,
                    !.done = TRUE]
    /\ UNCHANGED <<currentPhase, mode, messages, isLoading, error,
                   sessionState, checkpointData, lastSendRef, calls, builder>>

InitScan ==
    /\ PageInit
    /\ \E text \in FrameTexts : reader = Reader(text)
    /\ builder = Builder(FALSE)

NextScan == Scan

SpecScan == InitScan /\ [][NextScan]_vars

----------------------------------------------------------------------------
(* GraphBuilder: the five construction steps run one after the other *)

steps ==
    << [key |-> "domain_graph", label |-> "Domain Graph"],
       [key |-> "lexical_graph", label |-> "Lexical Graph"],
       [key |-> "subject_graph", label |-> "Subject Graph"],
       [key |-> "entity_resolution", label |-> "Entity Resolution"],
       [key |-> "vector_index", label |-> "Vector Index"] >>

\* what a step function resolves to, and the messages of what it throws
StepResults == {"ok"}
StepErrors == {"API error: 500", "API error: 404", "Failed to fetch"}

isComplete == \A k \in DOMAIN builder.progress : builder.progress[k]

\* startConstruction up to its first await
startConstruction(B) ==
    [B EXCEPT !.currentStep = steps[1].key, !.run = 1]

\* the effect of the first render: autoStart starts the construction
Mount ==
    /\ ~builder.mounted
    /\ builder' =
           IF builder.autoStart /\ builder.currentStep = Null
              /\ builder.error = Null
           THEN startConstruction([builder EXCEPT !.mounted = TRUE])
           ELSE [builder EXCEPT !.mounted = TRUE]
    /\ UNCHANGED <<currentPhase, mode, messages, isLoading, error,
                   sessionState, checkpointData, lastSendRef, calls, reader>>

\* a click on Start Construction
StartClick ==
    /\ builder.mounted
    /\ ~isComplete /\ builder.currentStep = Null /\ builder.error = Null
    /\ builder' = startConstruction(builder)
    /\ UNCHANGED <<currentPhase, mode, messages, isLoading, error,
                   sessionState, checkpointData, lastSendRef, calls, reader>>

\* await step.fn() threw, and the loop goes on to the next step all the same
StepRejectContinues(errMessage) ==
    /\ builder.run # 0
    /\ LET k == builder.run
           failed == [builder EXCEPT
                        !.error = "Failed at " \o steps[k].label \o ": " \o errMessage]
       IN  builder' =
               IF k < Len(steps)
               THEN [failed EXCEPT !.currentStep = steps[k + 1].key, !.run = k + 1]
               ELSE [failed EXCEPT !.currentStep = Null, !.run = 0]
    /\ UNCHANGED <<currentPhase, mode, messages, isLoading, error,
                   sessionState, checkpointData, lastSendRef, calls, reader>>

\* await step.fn() resolved: the step is marked done and the next one starts,
\* or after the last one onComplete is called
StepResolve(result) ==
    /\ builder.run # 0
    /\ LET k == builder.run
           done == [builder EXCEPT
                      !.progress = [@ EXCEPT ![steps[k].key] = TRUE],
                      !.results = (steps[k].key :> result) @@ @]
       IN  builder' =
               IF k < Len(steps)
               THEN [done EXCEPT !.currentStep = steps[k + 1].key, !.run = k + 1]
               ELSE [done EXCEPT !.currentStep = Null, !.run = 0,
                                 !.completed = @ + 1]
    /\ UNCHANGED <<currentPhase, mode, messages, isLoading, error,
                   sessionState, checkpointData, lastSendRef, calls, reader>>

\* await step.fn() threw: the error is set and startConstruction returns
StepReject(errMessage) ==
    /\ builder.run # 0
    /\ builder' = [builder EXCEPT
                     !.error = "Failed at " \o steps[builder.run].label
                               \o ": " \o errMessage,
                     !.currentStep = Null,
                     !.run = 0]
    /\ UNCHANGED <<currentPhase, mode, messages, isLoading, error,
                   sessionState, checkpointData, lastSendRef, calls, reader>>

\* a click on Retry Construction
RetryConstructionClick ==
    /\ builder.mounted
    /\ builder.error # Null
    /\ builder' = [builder EXCEPT
                     !.error = Null,
                     !.progress = [k \in DOMAIN @ |-> FALSE],
                     !.currentStep = Null]
    /\ UNCHANGED <<currentPhase, mode, messages, isLoading, error,
                   sessionState, checkpointData, lastSendRef, calls, reader>>

InitBuilder ==
    /\ PageInit
    /\ reader = Reader(<<>>)
    /\ \E autoStart \in BOOLEAN : builder = Builder(autoStart)

NextBuilder ==
    \/ Mount
    \/ StartClick
    \/ \E result \in StepResults : StepResolve(result)
    \/ \E e \in StepErrors : StepReject(e)
    \/ RetryConstructionClick

SpecBuilder == InitBuilder /\ [][NextBuilder]_vars

----------------------------------------------------------------------------
(* Vocabulary of the properties *)

Done(i) == calls[i].pc = "done"

InFlight == {i \in 1..Len(calls) : calls[i].pc \in {"headers", "fetch", "read"}}

\* positions in the log of call i at which a callback named cb was invoked
Invoked(i, cb) == {k \in 1..Len(calls[i].log) : calls[i].log[k].cb = cb}

Terminals(i) == Invoked(i, "complete") \cup Invoked(i, "error")

\* the stream of call i was read to its end without any terminal outcome
EndedSilently(i) ==
    Done(i) /\ Terminals(i) = {} /\ Invoked(i, "catch") = {}

SystemMessagesOf(i) ==
    {k \in 1..Len(messages) :
        messages[k].role = "system" /\ messages[k].id.call = i}

AgentMessagesOf(i) == {k \in 1..Len(messages) : messages[k].id = AgentId(i)}

----------------------------------------------------------------------------
(* Properties *)

\* C1: once every exchange has ended (complete, error, transport failure or a
\* stream that just ends), the in-flight flag isLoading is cleared.
C1_LoadingClearedWhenEnded ==
    (calls # <<>> /\ \A i \in 1..Len(calls) : Done(i)) => ~isLoading

\* C2: a stream that has ended and whose only terminal event is complete with
\* message X leaves an agent message of that exchange with content X.
C2_CompleteContentWins ==
    \A i \in 1..Len(calls) :
        (Done(i) /\ Invoked(i, "error") = {} /\ Cardinality(Invoked(i, "complete")) = 1)
        => LET k == CHOOSE k \in Invoked(i, "complete") : TRUE
               X == Get(calls[i].log[k].data, "message")
           IN  \E m \in AgentMessagesOf(i) : messages[m].content = X

\* C3: the request dispatched for a checkpoint action a carries a as its
\* message and as its action parameter.
C3_ActionSentTwice ==
    \A i \in 1..Len(calls) :
        (calls[i].origin = "checkpoint" /\ calls[i].request # None)
        => LET body == calls[i].request[1]
           IN  /\ body.message = calls[i].action
               /\ "action" \in DOMAIN body
               /\ body.action = calls[i].action

\* C4: at most one request is in flight at any time.
C4_OneInFlight == Cardinality(InFlight) <= 1

\* C5: a stream that ends with neither complete nor error is handled as a
\* failure: one system message of that exchange and the error banner set.
C5_SilentEndIsFailure ==
    \A i \in 1..Len(calls) :
        EndedSilently(i)
        => Cardinality(SystemMessagesOf(i)) = 1 /\ Truthy(error)

\* C6: a send accepted while a checkpoint was showing comes from one of the
\* enumerated checkpoint actions.
C6_GatedSendsAreActions ==
    \A i \in 1..Len(calls) : calls[i].gated => calls[i].action \in Actions

\* C7: once a complete response with current_phase "query" and graph_built
\* true has been processed, mode is query.
C7_ModeBecomesQuery ==
    \A i \in 1..Len(calls) : \A k \in Invoked(i, "complete") :
        LET response == calls[i].log[k].data
        IN  (Get(response, "current_phase") = "query"
             /\ "graph_built" \in DOMAIN response /\ response.graph_built)
            => mode = "query"

\* C8: after the error callback of a stream nothing more of that stream is
\* processed: an error entry is the last entry of the exchange's log.
C8_NothingAfterError ==
    \A i \in 1..Len(calls) : \A k \in Invoked(i, "error") : k = Len(calls[i].log)

\* C9: a stream has at most one terminal outcome: complete and error handlers
\* together are invoked at most once.
C9_OneTerminalOutcome ==
    \A i \in 1..Len(calls) : Cardinality(Terminals(i)) <= 1

\* C10: an exchange whose stream ended with an error event as its last event
\* has appended exactly one system message and, no other exchange having
\* merged a response, SessionState is what it was when the exchange began.
C10_ErrorLeavesSessionState ==
    \A i \in 1..Len(calls) :
        LET log == calls[i].log
        IN  (/\ Done(i) /\ log # <<>>
             /\ log[Len(log)].cb = "error" /\ log[Len(log)].src = "event"
             /\ \A j \in 1..Len(calls) : j # i => Invoked(j, "complete") = {})
            => /\ Cardinality(SystemMessagesOf(i)) = 1
               /\ sessionState = calls[i].sessionAtSend

\* C11: a transport failure (the request is rejected before any body is read)
\* leaves SessionState, phase and mode as they were, appends exactly one
\* message, of role system, and clears the in-flight flag.
TransportFailureStep(i) ==
    calls[i].pc \in {"headers", "fetch"} /\ calls'[i].pc = "done"

C11_TransportFailure ==
    [][\A i \in 1..Len(calls) :
          TransportFailureStep(i)
          => /\ sessionState' = sessionState
             /\ currentPhase' = currentPhase
             /\ mode' = mode
             /\ Len(messages') = Len(messages) + 1
             /\ SubSeq(messages', 1, Len(messages)) = messages
             /\ messages'[Len(messages')].role = "system"
             /\ messages'[Len(messages')].id.call = i
             /\ ~isLoading']_vars

C11_Witness ==
    \E i \in 1..Len(calls) :
        /\ Done(i) /\ calls[i].request # None /\ Invoked(i, "catch") # {}
        /\ Cardinality(SystemMessagesOf(i)) = 1 /\ ~isLoading

\* C12: every accepted send writes its {text, action} pair to the
\* PendingRequest, nothing else writes it, and a retry sends exactly the
\* pair it finds there, so the pair is the same after the retry.
NewestCall == calls'[Len(calls')]

C12_RetryReplaysPair ==
    [][/\ Len(calls') = Len(calls) + 1
          => /\ lastSendRef' = [message |-> Some(NewestCall.messageText),
                                action |-> NewestCall.action]
             /\ NewestCall.origin = "retry" => lastSendRef' = lastSendRef
       /\ Len(calls') = Len(calls) => lastSendRef' = lastSendRef]_vars

C12_Witness ==
    \E i \in 2..Len(calls) :
        /\ calls[i].origin = "retry"
        /\ calls[i].messageText = calls[i - 1].messageText
        /\ calls[i].action = calls[i - 1].action

\* C13: however the text is cut into chunks, the frames the read loop has
\* produced are those one chunk holding all the text read so far produces.
C13_SplitInvariance ==
    reader.frames =
        CompleteFrames(SplitFrames(SubSeq(reader.text, 1, reader.pos)))

\* a finished read with a frame produced, a cut between the two newlines of
\* a delimiter, and an empty chunk
C13_Witness ==
    /\ reader.done
    /\ \E k \in 1..Len(reader.frames) : reader.frames[k] = <<"x">>
    /\ \E k \in 1..Len(reader.cuts) :
          LET c == reader.cuts[k]
          IN  c >= 1 /\ c < Len(reader.text)
              /\ reader.text[c] = NL /\ reader.text[c + 1] = NL
              /\ (c = 1 \/ reader.text[c - 1] # NL)
    /\ \E k \in 2..Len(reader.cuts) : reader.cuts[k] = reader.cuts[k - 1]

\* C14: a send with blank text, or while a request is in flight, changes
\* nothing: messages, PendingRequest, in-flight flag, error and the list of
\* exchanges (so no request is dispatched) are what they were.
SendInputs ==
    InputTexts \cup Suggestions \cup {<<a>> : a \in Actions}

C15_ClearedBeforeDispatch ==
    \A i \in 1..Len(calls) :
        (calls[i].origin = "checkpoint" /\ calls[i].request # None)
        => calls[i].checkpointAtDispatch = "absent"

\* the step in which call i has processed a complete event, and its payload
CompleteStep(i) ==
    /\ Len(calls'[i].log) > Len(calls[i].log)
    /\ calls'[i].log[Len(calls'[i].log)].cb = "complete"

ResponseOf(i) == calls'[i].log[Len(calls'[i].log)].data

Offered(checkpoint) ==
    {a \in Actions : a \in DOMAIN checkpoint.actions /\ Truthy(checkpoint.actions[a])}

C17_PhaseOnlyFromResponse ==
    [][currentPhase' # currentPhase
       => \E i \in 1..Len(calls) :
             CompleteStep(i) /\ currentPhase' = Get(ResponseOf(i), "phase")]_vars

C17_Witness ==
    /\ currentPhase # "user_intent"
    /\ \E i \in 1..Len(calls) : \E k \in Invoked(i, "complete") :
          Get(calls[i].log[k].data, "phase") = currentPhase

\* C18: a processed response that declares, in phase or current_phase, a
\* phase other than the current one makes that phase the current one.
DeclaredPhase(response) ==
    IF Truthy(Get(response, "phase")) THEN response.phase
    ELSE Get(response, "current_phase")

C18_DeclaredPhaseTaken ==
    [][\A i \in 1..Len(calls) :
          (CompleteStep(i) /\ Truthy(DeclaredPhase(ResponseOf(i)))
           /\ DeclaredPhase(ResponseOf(i)) # currentPhase)
          => currentPhase' = DeclaredPhase(ResponseOf(i))]_vars

\* the deltas of the token events of a log, in order, as one string
RECURSIVE TokenText(_)
TokenText(log) ==
    IF log = <<>> THEN ""
    ELSE (IF Head(log).cb = "token" THEN Get(Head(log).data, "delta") ELSE "")
         \o TokenText(Tail(log))

\* C20: while a stream has delivered token events and no complete event, its
\* one agent message holds the deltas concatenated in arrival order.
C20_TokensInOrder ==
    \A i \in 1..Len(calls) :
        (Invoked(i, "token") # {} /\ Invoked(i, "complete") = {})
        => /\ Cardinality(AgentMessagesOf(i)) = 1
           /\ \A m \in AgentMessagesOf(i) :
                 messages[m].content = TokenText(calls[i].log)

C20_Witness ==
    \E i \in 1..Len(calls) :
        /\ Invoked(i, "complete") = {}
        /\ Cardinality(Invoked(i, "token")) = 2
        /\ \E m \in AgentMessagesOf(i) : messages[m].content = "ab"

\* C19: mode is one-way: once it is query, no step makes it build again.
C19_ModeOneWay == [][mode = "query" => mode' = "query"]_vars

\* the page is in query mode and has answered a question there
C19_Witness ==
    /\ mode = "query"
    /\ \E k \in 1..Len(messages) :
          messages[k].role = "agent" /\ messages[k].content = "42"

\* the data lines of a frame, and the event type its event lines declare
DataLines(frame) ==
    SelectSeq(SplitLines(frame), LAMBDA line : StartsWith(line, DataTag))

EventLines(frame) ==
    SelectSeq(SplitLines(frame), LAMBDA line : StartsWith(line, EventTag))

DeclaredType(frame) ==
    IF EventLines(frame) = <<>> THEN "message"
    ELSE ConcatAtoms(TrimAtoms(Tail(EventLines(frame)[Len(EventLines(frame))])))

\* a frame with data lines none of which is valid JSON
Undecodable(frame) ==
    LET lines == DataLines(frame)
    IN  /\ lines # <<>>
        /\ \A k \in 1..Len(lines) : ~JSONparse(Tail(lines[k])).ok

\* the frames completed by the chunk call i reads in this step
NewFrames(i) ==
    CompleteFrames(SplitFrames(
        calls[i].buffer \o SubSeq(calls'[i].received,
                                  Len(calls[i].received) + 1,
                                  Len(calls'[i].received))))

AllUndecodable(frames) ==
    /\ frames # <<>>
    /\ \A k \in 1..Len(frames) : Undecodable(frames[k])

\* C21: a frame whose data is not valid JSON is decoded to its event type
\* with data null, invokes no callback, changes neither the accumulated
\* content nor any page state, and leaves the stream being read.
C21_BadFrameSwallowed ==
    [][\A i \in 1..Len(calls) :
          Len(calls'[i].received) > Len(calls[i].received)
          => LET frames == NewFrames(i)
             IN  AllUndecodable(frames)
                 => /\ \A k \in 1..Len(frames) :
                          /\ ParseFrame(frames[k]).data = None
                          /\ ParseFrame(frames[k]).eventType
                                 = DeclaredType(frames[k])
                    /\ calls'[i].pc = "read"
                    /\ calls'[i].log = calls[i].log
                    /\ calls'[i].currentContent = calls[i].currentContent
                    /\ UNCHANGED <<messages, sessionState, checkpointData,
                                   currentPhase, mode, isLoading, error>>]_vars

\* a stream delivered an undecodable token frame and then a token frame,
\* which was applied
C21_Witness ==
    \E i \in 1..Len(calls) :
        /\ calls[i].received =
               Frame("token", JBad) \o Delimiter \o Frame("token", JTokenA) \o Delimiter
        /\ calls[i].currentContent = "a"
        /\ Cardinality(Invoked(i, "token")) = 1

\* C24: the data of a frame with several data lines is the parse result of
\* its last data line (null when that line is not valid JSON).
LastDataLine(frame) == DataLines(frame)[Len(DataLines(frame))]

C24_LastDataLineWins ==
    (reader.done /\ DataLines(reader.text) # <<>>)
    => LET p == JSONparse(Tail(LastDataLine(reader.text)))
       IN  reader.frames[1].data = IF p.ok THEN p.value ELSE None

\* C22: when getAccessToken supplies no token the request is issued all the
\* same, with the same body and without an Authorization header, nothing is
\* reported as failed, and the response can be read as for any request.
C22_NoTokenStillDispatched ==
    \A i \in 1..Len(calls) :
        (calls[i].auth # None /\ ~Truthy(calls[i].auth[1].token))
        => /\ calls[i].pc = "fetch"
           /\ calls[i].request =
                  Some([session_id |-> SessionId,
                        message |-> ConcatAtoms(calls[i].messageText)])
           /\ DOMAIN calls[i].auth[1].headers = {"Content-Type"}
           /\ Invoked(i, "catch") = {} /\ Invoked(i, "error") = {}
           /\ ENABLED FetchResolve(i)

\* a request is pending that was issued without a token
C22_Witness ==
    \E i \in 1..Len(calls) :
        /\ calls[i].pc = "fetch" /\ calls[i].auth # None
        /\ calls[i].auth[1].token = Null
        /\ "Authorization" \notin DOMAIN calls[i].auth[1].headers

\* C23: SessionState changes only in a step that processes a complete
\* response, and then every key of the response holds the response's value,
\* every other key keeps its value, and no key is removed.
C23_ShallowMergeOnly ==
    [][/\ sessionState' # sessionState
          => \E i \in 1..Len(calls) : CompleteStep(i)
       /\ \A i \in 1..Len(calls) :
             CompleteStep(i)
             => LET response == ResponseOf(i)
                IN  /\ DOMAIN sessionState' = DOMAIN sessionState \cup DOMAIN response
                    /\ \A k \in DOMAIN response : sessionState'[k] = response[k]
                    /\ \A k \in DOMAIN sessionState \ DOMAIN response :
                          sessionState'[k] = sessionState[k]]_vars

\* two responses were merged: message overwritten by the later one, phase
\* kept from the earlier one
C23_Witness ==
    /\ DOMAIN sessionState =
           {"message", "phase", "current_phase", "graph_built"}
    /\ sessionState.message = "Y"
    /\ sessionState.phase = "file_suggestion"

\* the callbacks the frames of a text stand for, in order
RECURSIVE EventsOf(_)
EventsOf(frames) ==
    IF frames = <<>> THEN <<>>
    ELSE LET ev == ParseFrame(Head(frames))
             here ==
                 IF /\ TrimAtoms(Head(frames)) # <<>>
                    /\ ev.data # None
                    /\ ev.eventType \in {"thinking", "token", "complete", "error"}
                 THEN <<[cb |-> ev.eventType, src |-> "event", data |-> ev.data[1]]>>
                 ELSE <<>>
         IN  here \o EventsOf(Tail(frames))

FromEvents(log) == SelectSeq(log, LAMBDA e : e.src = "event")

\* C25: when a stream has ended with text left after its last blank-line
\* delimiter, the callbacks invoked for it are those of the delimited frames
\* only: the remainder has triggered none.
C25_RemainderDiscarded ==
    \A i \in 1..Len(calls) :
        Done(i)
        => LET parts == SplitFrames(calls[i].received)
           IN  Remainder(parts) # <<>>
               => FromEvents(calls[i].log) = EventsOf(CompleteFrames(parts))

\* a stream ended after a token frame and a whole error event that lacked
\* only its delimiter; no error was reported
C25_Witness ==
    \E i \in 1..Len(calls) :
        /\ Done(i)
        /\ calls[i].received =
               Frame("token", JTokenA) \o Delimiter \o Frame("error", JError)
        /\ calls[i].buffer = Frame("error", JError)
        /\ Invoked(i, "error") = {} /\ Invoked(i, "catch") = {}
        /\ Cardinality(Invoked(i, "token")) = 1

\* C26: the message history only grows at its end: every message keeps its
\* place, identity and role, and a message that changes is the agent message
\* of an exchange whose stream is being read.
C26_HistoryAppendOnly ==
    [][/\ Len(messages') >= Len(messages)
       /\ \A k \in 1..Len(messages) :
             /\ messages'[k].id = messages[k].id
             /\ messages'[k].role = messages[k].role
             /\ messages'[k] # messages[k]
                => /\ messages[k].role = "agent"
                   /\ \E i \in 1..Len(calls) :
                         messages[k].id = AgentId(i) /\ calls[i].pc = "read"]_vars

\* an agent message grown by two tokens stands between the user message
\* before it and the system message of the error event after it
C26_Witness ==
    \E k \in 2..(Len(messages) - 1) :
        /\ messages[k].role = "agent" /\ messages[k].content = "ab"
        /\ messages[k - 1].role = "user"
        /\ messages[k + 1].role = "system"

\* the step in which the exchange i ends in failure: its request is
\* rejected, an error is reported for it, or its stream ends with no terminal
\* event
FailureStep(i) ==
    /\ Invoked(i, "complete") = {}
    /\ \/ Len(calls'[i].log) > Len(calls[i].log)
          /\ calls'[i].log[Len(calls'[i].log)].cb \in {"catch", "error"}
       \/ calls[i].pc = "read" /\ calls'[i].pc = "done"
          /\ calls'[i].log = calls[i].log

\* C27: when the request of a checkpoint action fails, CheckpointState is
\* absent after the failure.
C27_FailureKeepsCheckpointCleared ==
    [][\A i \in 1..Len(calls) :
          (calls[i].origin = "checkpoint" /\ FailureStep(i))
          => checkpointData' = None]_vars

\* C28: a failure of reader.read() is reported by the catch of
\* sendStreamingMessage through onError, once; the catch of handleSend does
\* not run for that exchange, and one system message carries the failure.
ReadFailures(i) ==
    {k \in Invoked(i, "error") : calls[i].log[k].src = "catch"}

C28_ReadFailureReportedOnce ==
    \A i \in 1..Len(calls) :
        ReadFailures(i) # {}
        => /\ Cardinality(ReadFailures(i)) = 1
           /\ Invoked(i, "catch") = {}
           /\ Done(i)
           /\ Cardinality({m \in SystemMessagesOf(i) :
                  messages[m].content = "Error: " \o StreamError}) = 1

\* a stream failed while being read, after a token had been applied
C28_Witness ==
    \E i \in 1..Len(calls) :
        /\ ReadFailures(i) # {}
        /\ Invoked(i, "token") # {}
        /\ error = StreamError /\ ~isLoading

\* the step in which queryGraph resolves call i with an answer
QuerySuccessStep(i) ==
    /\ calls[i].pc = "query" /\ calls'[i].pc = "done"
    /\ calls'[i].result # None
    /\ "query_result" \in DOMAIN calls'[i].result[1]

\* C29: in query mode a successful exchange appends one agent message whose
\* content is the answer of the result, clears isLoading and leaves phase,
\* mode, SessionState and CheckpointState as they were.
C29_QuerySuccessFrame ==
    [][\A i \in 1..Len(calls) :
          QuerySuccessStep(i)
          => /\ Len(messages') = Len(messages) + 1
             /\ SubSeq(messages', 1, Len(messages)) = messages
             /\ messages'[Len(messages')].role = "agent"
             /\ messages'[Len(messages')].content
                    = calls'[i].result[1].query_result.answer
             /\ ~isLoading'
             /\ UNCHANGED <<currentPhase, mode, sessionState,
                            checkpointData>>]_vars

\* a question was answered in query mode, after the build had left a
\* session state behind
C29_Witness ==
    /\ mode = "query" /\ ~isLoading
    /\ DOMAIN sessionState # {}
    /\ \E i \in 1..Len(calls) :
          /\ calls[i].result # None
          /\ "query_result" \in DOMAIN calls[i].result[1]
          /\ \E k \in AgentMessagesOf(i) :
                messages[k].content = calls[i].result[1].query_result.answer

\* the steps marked done are the first n of the order, for some n
CompletedCount == Cardinality({k \in 1..Len(steps) : builder.progress[steps[k].key]})

\* C30: the steps marked done are always a prefix of domain_graph,
\* lexical_graph, subject_graph, entity_resolution, vector_index; the step
\* being run has all earlier steps done and no error set; and once a step
\* has failed nothing runs, the error is set and onComplete has not been
\* called.
C30_StepsInOrder ==
    /\ \A k \in 1..Len(steps) :
          builder.progress[steps[k].key] <=> k <= CompletedCount
    /\ builder.run # 0
       => /\ \A j \in 1..(builder.run - 1) : builder.progress[steps[j].key]
          /\ ~builder.progress[steps[builder.run].key]
          /\ builder.currentStep = steps[builder.run].key
          /\ builder.error = Null
    /\ builder.error # Null
       => /\ builder.run = 0 /\ builder.currentStep = Null
          /\ CompletedCount < Len(steps)
          /\ builder.completed = 0
    /\ builder.completed > 0 => CompletedCount = Len(steps)

\* the third step failed after the first two had been done
C30_Witness ==
    /\ builder.error = "Failed at Subject Graph: API error: 500"
    /\ CompletedCount = 2
    /\ builder.run = 0

====
